---- MODULE Spec2Model ----
(***************************************************************************)
(* Q5-sentinel: Risk-Priority Index (RPI) computation and deterministic    *)
(* ranking engine (motor/src).                                             *)
(*                                                                         *)
(* Numbers.  Python floats are modelled in fixed point: a score of p       *)
(* points is the integer p * 10000 (Pts), a multiplier is an integer       *)
(* numerator over 100 or 1000, and every product is rounded down to the    *)
(* unit (Mul).  EPSS scores are in 1/10000, EPSS percentiles and scanner   *)
(* confidences in 1/100.                                                   *)
(*                                                                         *)
(* Records.  A vulnerability record is an open Python dict; here it is a   *)
(* record whose fields hold what the code reads from the dict.  Free text  *)
(* is represented by the outcome of the substring tests the code applies   *)
(* to it (env, path, domain, ...).                                         *)
(***************************************************************************)
EXTENDS Integers, Sequences, FiniteSets, TLC

VARIABLES pc, config, vuln_list, unique_vulns, fetcher, pending, results,
          errors, sorted_results, requests, cache_files

vars == <<pc, config, vuln_list, unique_vulns, fetcher, pending, results,
          errors, sorted_results, requests, cache_files>>

(***************************************************************************)
(* Arithmetic helpers                                                      *)
(***************************************************************************)
Pts(n) == n * 10000

Min(a, b) == IF a <= b THEN a ELSE b
Max(a, b) == IF a >= b THEN a ELSE b

\* x * (num / den), rounded down (split so that no intermediate value
\* leaves the 32-bit integers of the model checker)
Mul(x, num, den) == (x \div den) * num + ((x % den) * num) \div den

(***************************************************************************)
(* Field values                                                            *)
(***************************************************************************)
\* a dict key that is not present
Absent == "<absent>"

\* A boolean-like field holds one of "True", "False" (the booleans), "'true'",
\* "'yes'", "'1'" (texts), "1" (the number) or Absent.

\* calculators.py / q2 / q3 / q5:  val is True or str(val).lower() == 'true'
is_true(val) == val \in {"True", "'true'"}

\* q1_calculator.extract_cve_id: first match of CVE-\d{4}-\d{4,7}, upper-cased
extract_cve_id(value) ==
    CASE value = "CVE-2021-0001"         -> "CVE-2021-0001"
      [] value = "cve-2021-0001"         -> "CVE-2021-0001"
      [] value = "GHSA-x, CVE-2021-0001" -> "CVE-2021-0001"
      [] value = "CVE-2022-0002"         -> "CVE-2022-0002"
      [] OTHER                           -> ""

\* the normalized CVE ids of the model
CveIds == {"CVE-2021-0001", "CVE-2022-0002"}

(***************************************************************************)
(* ExternalDataFetcher (q1_calculator.py)                                  *)
(*   fetcher.kev_data  : normalized CVE id -> [known_ransomware, recent]   *)
(*   fetcher.epss_data : normalized CVE id -> [epss, percentile]           *)
(*   fetcher.nvd       : what the NVD reference query answers per CVE id   *)
(***************************************************************************)
\* fetcher.nvd[cve] is one of "none", "exploit_ref", "nuclei", "exploitdb",
\* "metasploit": the strongest kind of reference NVD lists for the CVE
\* ExternalDataFetcher.check_poc_availability: the dict it returns
check_poc_availability(f, cve_id) ==
    LET default == [has_poc |-> FALSE, poc_maturity |-> 0]
        by_reference(nvd) == IF nvd = "exploit_ref" THEN 70 ELSE 0
        by_exploitdb(nvd, m) == IF nvd = "exploitdb" THEN Max(m, 90) ELSE m
        by_metasploit(nvd, m) == IF nvd = "metasploit" THEN Max(m, 100) ELSE m
        by_nuclei(nvd, m) == IF nvd = "nuclei" THEN Max(m, 55) ELSE m
        by_ransomware(cve, m) ==
            IF cve \in DOMAIN f.kev_data /\ f.kev_data[cve].known_ransomware
              THEN Min(100, Max(m, 95)) ELSE m
        poc_info(cve, nvd) ==
            [has_poc |-> nvd # "none",
             poc_maturity |->
                 by_ransomware(cve, by_nuclei(nvd, by_metasploit(nvd,
                     by_exploitdb(nvd, by_reference(nvd)))))]
        lookup(cve) == IF cve = "" THEN default ELSE poc_info(cve, f.nvd[cve])
    IN lookup(extract_cve_id(cve_id))

(***************************************************************************)
(* VulnerabilityClassifier (q2_calculator.py)                              *)
(***************************************************************************)
\* the record's domain field is the outcome of the pattern search over
\* component_name, file_path, service and test
classify_domain(v) == v.domain

\* file_path holds a dev/test marker ("dev"), a runtime marker ("runtime")
\* or neither ("plain")
is_runtime_dependency(v) == v.path # "dev"

(***************************************************************************)
(* Q1 exploitability (q1_calculator.py)                                    *)
(***************************************************************************)
class_weight(v) ==
    CASE v.cwe = "critical" -> 90
      [] v.cwe = "medium"   -> 60
      [] v.cwe = "low"      -> 40
      [] OTHER              -> 50

\* Q1 with the EPSS bonus taken from the highest score of the whole map
q1_with_batch_epss(v, f) ==
    LET scores == {f.epss_data[c].epss : c \in DOMAIN f.epss_data}
        top == IF scores = {} THEN 0 ELSE CHOOSE s \in scores : \A t \in scores : t <= s
    IN Min(Pts(100), Pts(30) + 20 * top)

calculate_q1_exploitability(v, f) ==
    LET is_runtime == v.path = "runtime"
        env_fit0 == IF is_runtime THEN 80 ELSE 30
        env_fit == Min(100, env_fit0 + (IF v.platform THEN 10 ELSE 0))
        q1(poc) == Mul(Pts(poc.poc_maturity), 5, 10) + Mul(Pts(env_fit), 3, 10)
                   + Mul(Pts(class_weight(v)), 2, 10)
        bonus(epss_score, epss_percentile) ==
            IF epss_score > 0 THEN 20 * epss_score + 10 * epss_percentile ELSE 0
        epss_bonus(cve, has_epss) ==
            bonus(IF has_epss THEN f.epss_data[cve].epss ELSE 0,
                  IF has_epss THEN f.epss_data[cve].percentile ELSE 0)
        q1_score(cve) ==
            Min(Pts(100), q1(check_poc_availability(f, cve))
                            + epss_bonus(cve, cve \in DOMAIN f.epss_data))
    IN q1_score(extract_cve_id(v.vid))

(***************************************************************************)
(* Q2 exposure (q2_calculator.py)                                          *)
(***************************************************************************)
UrlPresent(v) == v.url # "none"
UrlFull(v) == v.url \in {"http", "public", "internal"}

\* a url that is a number, not a text: url[:50] raises TypeError
Q2Raises(v) == v.url = "number"

q2_domain_multiplier(d) ==
    CASE d = "web_api"        -> 130
      [] d = "database"       -> 120
      [] d = "infrastructure" -> 120
      [] d = "search_index"   -> 115
      [] d = "messaging"      -> 110
      [] d = "backend"        -> 105
      [] d = "frontend"       -> 90
      [] d = "build_tools"    -> 70
      [] OTHER                -> 100

\* e is the exposure and r the reachability as the code updates them
calculate_q2_exposure(v) ==
    LET is_dynamic == is_true(v.dynamic_finding)
        is_static == is_true(v.static_finding)
        is_prod == v.env \in {"prod", "both"}
        is_dev == v.env \in {"dev", "both"}
        by_finding == IF is_dynamic THEN Pts(75) ELSE IF is_static THEN Pts(35) ELSE Pts(20)
        by_verified(e) ==
            IF is_true(v.verified)
              THEN (IF is_dynamic THEN Min(Pts(100), Mul(e, 120, 100))
                                  ELSE Min(Pts(100), Mul(e, 115, 100)))
              ELSE e
        url_floor(e) ==
            IF UrlFull(v) THEN Max(Max(e, Pts(85)), Pts(90)) ELSE Max(e, Pts(85))
        by_url(e) ==
            IF ~UrlPresent(v) THEN e
            ELSE IF v.url = "public" THEN Pts(95)
            ELSE IF v.url = "internal" THEN Min(url_floor(e), Pts(60))
            ELSE url_floor(e)
        by_api(e) == IF v.ep_api THEN Max(e, Pts(70)) ELSE e
        by_admin(e) == IF v.ep_admin THEN Max(e, Pts(60)) ELSE e
        by_endpoints(e) ==
            IF v.ep_count > 0
              THEN by_admin(by_api(Max(e, Pts(50 + Min(40, v.ep_count * 5)))))
              ELSE e
        by_environment(x) ==
            IF is_prod /\ ~is_dev THEN Min(Pts(100), Mul(x, 130, 100))
            ELSE IF is_dev /\ ~is_prod THEN Max(Pts(10), Mul(x, 70, 100))
            ELSE x
        by_runtime(r) ==
            IF is_runtime_dependency(v) THEN Max(r, Pts(70)) ELSE Min(r, Pts(40))
        by_domain(r) ==
            Min(Pts(100), Mul(r, q2_domain_multiplier(classify_domain(v)), 100))
        by_service(e) == IF v.svc_public THEN Max(e, Pts(60)) ELSE e
        exposure == by_service(by_environment(by_endpoints(by_url(by_verified(by_finding)))))
        reachability == by_domain(by_runtime(by_environment(Pts(30))))
        q2_score == Mul(exposure, 6, 10) + Mul(reachability, 4, 10)
    IN Min(Pts(100), Max(0, q2_score))

(***************************************************************************)
(* Q3 impact (q3_calculator.py)                                            *)
(***************************************************************************)
severity_map(s) ==
    CASE s = "critical" -> 90
      [] s = "high"     -> 70
      [] s = "medium"   -> 50
      [] s = "low"      -> 30
      [] s = "info"     -> 10
      [] OTHER          -> 50

\* 1.0 + log10(n) * 0.2 for n in 2..4, and the stepped tiers, in 1/10000
occurrence_multiplier(n) ==
    IF n >= 500 THEN 25000
    ELSE IF n >= 100 THEN 20000
    ELSE IF n >= 50 THEN 16000
    ELSE IF n >= 20 THEN 14000
    ELSE IF n >= 10 THEN 13000
    ELSE IF n >= 5 THEN 12000
    ELSE IF n = 4 THEN 11204
    ELSE IF n = 3 THEN 10954
    ELSE 10602

criticality_multiplier(c) ==
    IF c >= 9 THEN 140
    ELSE IF c >= 8 THEN 130
    ELSE IF c >= 7 THEN 120
    ELSE IF c >= 6 THEN 110
    ELSE IF c <= 3 THEN 80
    ELSE 100

q3_domain_multiplier(d) ==
    CASE d = "database"       -> 140
      [] d = "infrastructure" -> 130
      [] d = "search_index"   -> 120
      [] d = "backend"        -> 115
      [] d = "web_api"        -> 110
      [] d = "messaging"      -> 105
      [] d = "frontend"       -> 90
      [] d = "build_tools"    -> 70
      [] OTHER                -> 100

\* v.cvss is cvssv3_score in tenths (0 when missing or unparseable);
\* v.nb_occurences is 0 when missing; v.criticality is 0 when missing
calculate_q3_impact(v) ==
    LET base == IF v.cvss > 0 THEN Pts(v.cvss) ELSE Pts(severity_map(v.severity))
        nb == IF v.nb_occurences = 0 THEN 1 ELSE v.nb_occurences
        by_occurrences(b) ==
            IF nb > 1 THEN Mul(b, occurrence_multiplier(nb), 10000) ELSE b
        by_criticality(b) ==
            IF v.criticality > 0 THEN Mul(b, criticality_multiplier(v.criticality), 100)
            ELSE b
        by_domain(b) == Mul(b, q3_domain_multiplier(classify_domain(v)), 100)
        by_sensitivity(b) ==
            IF v.sens >= 3 THEN Mul(b, 130, 100)
            ELSE IF v.sens >= 1 THEN Mul(b, 115, 100)
            ELSE b
        by_verified(b) == IF is_true(v.verified) THEN Mul(b, 105, 100) ELSE b
        impact ==
            by_verified(by_sensitivity(by_domain(by_criticality(by_occurrences(base)))))
    IN Min(Pts(100), Max(0, impact))

(***************************************************************************)
(* Q4 fixability (q4_calculator.py)                                        *)
(***************************************************************************)
\* v.effort_kind: "absent", "num" (v.effort_num holds the number), "low",
\* "medium", "high" or "other" (any other text)
calculate_q4_fixability(v) ==
    LET by_patch == IF v.patch THEN 0 ELSE 30
        by_effort == CASE v.effort_kind = "num"    -> v.effort_num * 10
                       [] v.effort_kind = "high"   -> 40
                       [] v.effort_kind = "medium" -> 20
                       [] v.effort_kind = "low"    -> 10
                       [] OTHER                    -> 0
        by_jira == IF is_true(v.has_jira_issue) THEN -20 ELSE 0
        by_domain == IF classify_domain(v) \in {"database", "infrastructure"} THEN 20 ELSE 0
        difficulty == by_patch + by_effort + by_jira + by_domain
    IN Pts(Max(0, Min(100, 100 - difficulty)))

(***************************************************************************)
(* Q5 urgency (q5_calculator.py)                                           *)
(***************************************************************************)
\* v.sla_days_known is FALSE when sla_days_remaining is missing or unparseable
_sla_component(v) ==
    IF is_true(v.violates_sla) THEN 100
    ELSE IF ~v.sla_days_known THEN 25
    ELSE IF v.sla_days < 0 THEN 100
    ELSE IF v.sla_days <= 3 THEN 95
    ELSE IF v.sla_days <= 7 THEN 90
    ELSE IF v.sla_days <= 14 THEN 80
    ELSE IF v.sla_days <= 30 THEN 70
    ELSE IF v.sla_days <= 60 THEN 50
    ELSE IF v.sla_days <= 90 THEN 30
    ELSE 20

\* the record carries no epss_score, epss_percentile or has_poc field of its
\* own, so the fall-backs of the code give 0, 0 and False
_threat_block(v, f) ==
    LET cve == v.vid
        has_epss == cve # "" /\ cve \in DOMAIN f.epss_data
        epss_score == IF has_epss THEN f.epss_data[cve].epss ELSE 0
        epss_percentile == IF has_epss THEN f.epss_data[cve].percentile ELSE 0
        kev == cve # "" /\ cve \in DOMAIN f.kev_data
        known_ransom == kev /\ f.kev_data[cve].known_ransomware
        kev_recent == kev /\ f.kev_data[cve].recent
        by_epss == 65 * epss_score + 35 * epss_percentile
        by_poc(has_poc, t) == IF has_poc THEN t + Pts(8) ELSE t
        by_kev(t) ==
            IF kev THEN Max(t, Pts(90)) + (IF kev_recent THEN Pts(5) ELSE 0) ELSE t
        by_ransomware(t) == IF known_ransom THEN Pts(100) ELSE t
        tier(threat, has_poc) ==
            IF kev \/ known_ransom THEN "critical"
            ELSE IF threat >= Pts(80) THEN "high"
            ELSE IF threat >= Pts(50) \/ has_poc THEN "med"
            ELSE IF threat >= Pts(20) THEN "low"
            ELSE "none"
        block(threat, has_poc) ==
            [score |-> threat, tier |-> tier(threat, has_poc), has_poc |-> has_poc,
             has_kev |-> kev, epss_score |-> epss_score,
             epss_percentile |-> epss_percentile]
        threat_block(has_poc) ==
            block(Max(0, Min(Pts(100), by_ransomware(by_kev(by_poc(has_poc, by_epss))))),
                  has_poc)
    IN threat_block(IF cve # "" THEN check_poc_availability(f, cve).has_poc ELSE FALSE)

\* factor in 1/100, from q2_exposure as calculate_rpi stored it in the record
_exposure_factor(q2) ==
    IF q2 >= Pts(60) THEN 100
    ELSE IF q2 >= Pts(40) THEN 90
    ELSE IF q2 >= Pts(20) THEN 85
    ELSE 70

\* v.sla_age is the age in days, -1 when missing
_age_urgency(v, tier) ==
    LET days == v.sla_age
        base == IF days > 730 THEN 20
                ELSE IF days > 365 THEN 18
                ELSE IF days > 180 THEN 16
                ELSE IF days > 90 THEN 12
                ELSE IF days > 30 THEN 8
                ELSE IF days > 7 THEN 4
                ELSE 0
        cap == CASE tier = "none" -> 10 [] tier = "low" -> 20 [] tier = "med" -> 25
                 [] tier = "high" -> 30 [] OTHER -> 35
        mult == CASE tier = "none" -> 5 [] tier = "low" -> 7 [] tier = "med" -> 9
                  [] tier = "high" -> 10 [] OTHER -> 11
        capped == Min(cap, (base * mult) \div 10)
    IN IF days < 0 THEN 0
       ELSE IF days >= 730 /\ tier \in {"none", "low"} THEN Max(0, capped - 8)
       ELSE capped

\* factors in 1/100
_exploit_factor_from_q1(q1, tier, has_poc, has_kev) ==
    IF ~has_poc /\ ~has_kev /\ tier \in {"none", "low"}
      THEN (IF q1 < Pts(25) THEN 75 ELSE IF q1 < Pts(50) THEN 90 ELSE 100)
      ELSE (IF q1 >= Pts(85) THEN 107
            ELSE IF q1 >= Pts(70) THEN 104
            ELSE IF q1 < Pts(30) THEN 95
            ELSE 100)

_impact_factor_from_q3(q3, has_kev, sla_urgent) ==
    IF has_kev \/ sla_urgent THEN 100
    ELSE IF q3 < Pts(30) THEN 80
    ELSE IF q3 < Pts(50) THEN 92
    ELSE IF q3 < Pts(70) THEN 100
    ELSE IF q3 >= Pts(85) THEN 106
    ELSE 102

_fixability_nudge_from_q4(q4) ==
    IF q4 >= Pts(80) THEN 103 ELSE IF q4 <= Pts(20) THEN 97 ELSE 100

\* v.scanner_confidence is in 1/100, -1 when missing or unparseable.
\* q1, q2, q3, q4 are the raw subscores calculate_rpi stored in the record.
calculate_q5_urgency(v, f, q1, q2, q3, q4) ==
    LET sla_u == _sla_component(v)
        sla_urgent == is_true(v.violates_sla) \/ (v.sla_days_known /\ v.sla_days < 0)
        conf == v.scanner_confidence
        conf01 == IF conf <= 100 THEN conf ELSE conf \div 100
        by_exposure(tb) == Min(Pts(100), Mul(tb.score, _exposure_factor(q2), 100))
        by_exploit(tb, th) ==
            Mul(th, _exploit_factor_from_q1(q1, tb.tier, tb.has_poc, tb.has_kev), 100)
        by_impact(tb, th) ==
            Mul(th, _impact_factor_from_q3(q3, tb.has_kev, sla_urgent), 100)
        threat(tb) ==
            Min(Pts(100), Max(0, by_impact(tb, by_exploit(tb, by_exposure(tb)))))
        w(tier) == IF tier \in {"none", "low"} THEN <<65, 25, 10>>
                   ELSE IF tier = "critical" THEN <<45, 40, 15>>
                   ELSE <<50, 35, 15>>
        mix(wt, th, age_u) ==
            (wt[1] * Pts(sla_u) + Mul(th, wt[2], 1) + wt[3] * Pts(age_u)) \div 100
        by_verified(q5) == IF is_true(v.verified) THEN Mul(q5, 104, 100) ELSE q5
        by_dynamic(q5) == IF is_true(v.dynamic_finding) THEN Mul(q5, 103, 100) ELSE q5
        by_confidence(tb, q5) ==
            IF conf >= 0 /\ conf01 < 50 /\ ~tb.has_kev /\ tb.tier \in {"none", "low"}
              THEN Mul(q5, 85, 100) ELSE q5
        by_fixability(q5) == Mul(q5, _fixability_nudge_from_q4(q4), 100)
        by_risk_accepted(q5) == IF is_true(v.risk_accepted) THEN Mul(q5, 30, 100) ELSE q5
        by_mitigated(q5) == IF is_true(v.is_mitigated) THEN Mul(q5, 50, 100) ELSE q5
        by_false_positive(q5) == IF is_true(v.false_p) THEN Mul(q5, 20, 100) ELSE q5
        by_sla(q5) == IF sla_urgent THEN Max(q5, Pts(100)) ELSE q5
        urgency(tb) ==
            by_sla(by_false_positive(by_mitigated(by_risk_accepted(by_fixability(
                by_confidence(tb, by_dynamic(by_verified(
                    mix(w(tb.tier), threat(tb), _age_urgency(v, tb.tier))))))))))
    IN Min(Pts(100), Max(0, urgency(_threat_block(v, f))))

(***************************************************************************)
(* RiskPriorityCalculator.calculate_rpi (calculators.py)                   *)
(***************************************************************************)
\* ProcessingConfig.weights in 1/100 (models.py, the second ProcessingConfig,
\* which is the one the name is bound to)
DefaultWeights == [q1 |-> 30, q2 |-> 20, q3 |-> 25, q4 |-> 10, q5 |-> 15]

\* 1.20 KEV, 1.15 PoC, 1.10 EPSS >= 0.50, 1.05 EPSS >= 0.20, else 1.00
g_exploit(has_kev, has_poc, epss) ==
    IF has_kev THEN 120
    ELSE IF has_poc THEN 115
    ELSE IF epss >= 5000 THEN 110
    ELSE IF epss >= 2000 THEN 105
    ELSE 100

g_surface(q2_base) ==
    IF q2_base >= Pts(80) THEN 115
    ELSE IF q2_base >= Pts(60) THEN 108
    ELSE 95

\* v.env: which markers the text of product, service, url and title holds
_env_factor(v) ==
    LET prod_like == v.env \in {"prod", "both"}
        dev_like == v.env \in {"dev", "both"}
    IN IF prod_like /\ ~dev_like THEN 110
       ELSE IF dev_like /\ ~prod_like THEN 85
       ELSE 100

\* step 6: verified x1.15, dynamic x1.10, scanner confidence < 0.5 x0.70
validation_boost(v, x) ==
    LET a == IF is_true(v.verified) THEN Mul(x, 115, 100) ELSE x
        b == IF is_true(v.dynamic_finding) THEN Mul(a, 110, 100) ELSE a
    IN IF v.scanner_confidence >= 0 /\ v.scanner_confidence < 50
         THEN Mul(b, 70, 100) ELSE b

\* step 7: occurrence tiers on the coupled Q3
occurrence_boost(v, q3_coupled) ==
    IF v.nb_occurences > 100 THEN Min(Pts(100), Mul(q3_coupled, 150, 100))
    ELSE IF v.nb_occurences > 50 THEN Min(Pts(100), Mul(q3_coupled, 130, 100))
    ELSE IF v.nb_occurences > 10 THEN Min(Pts(100), Mul(q3_coupled, 115, 100))
    ELSE q3_coupled

\* step 5: the coupled subscores
q1_coupled(q1, gs) == Min(Pts(100), Mul(q1, gs, 100))
q2_coupled(q2, fe) == Min(Pts(100), Mul(q2, fe, 100))
q3_coupled(q3, ge) == Min(Pts(100), Mul(q3, ge, 100))
q5_coupled(q5, ge, gs, fe) ==
    Min(Pts(100), Mul(Mul(Mul(q5, 700 + 3 * ge, 1000), 800 + 2 * gs, 1000), fe, 100))

\* step 8: weighted sum of the coupled subscores
weighted_rpi(w, c1, c2, c3, c4, c5) ==
    Mul(c1, w.q1, 100) + Mul(c2, w.q2, 100) + Mul(c3, w.q3, 100)
      + Mul(c4, w.q4, 100) + Mul(c5, w.q5, 100)

\* the penalties taken by the records whose flag is not set
penalties_inverted(v, rpi) ==
    LET a == IF ~is_true(v.risk_accepted) THEN Mul(rpi, 5, 100) ELSE rpi
        b == IF ~is_true(v.is_mitigated) THEN Mul(a, 10, 100) ELSE a
    IN IF ~is_true(v.false_p) THEN Mul(b, 20, 100) ELSE b

\* step 9: risk accepted x0.05, mitigated x0.10, false positive x0.20
apply_penalties(v, rpi) ==
    LET a == IF is_true(v.risk_accepted) THEN Mul(rpi, 5, 100) ELSE rpi
        b == IF is_true(v.is_mitigated) THEN Mul(a, 10, 100) ELSE a
    IN IF is_true(v.false_p) THEN Mul(b, 20, 100) ELSE b

SlaFloor == 85

\* step 10: SLA violation override
sla_override(v, rpi) ==
    IF is_true(v.violates_sla) THEN Max(rpi, Pts(SlaFloor)) ELSE rpi

\* the override placed before the penalties
penalties_after_override(v, rpi) == apply_penalties(v, sla_override(v, rpi))

\* steps 9 and 10 in the order of the code
penalties_then_override(v, rpi) == sla_override(v, apply_penalties(v, rpi))

\* the score stored without the final clamp
rpi_not_clamped(rpi) == rpi

\* metrics.rpi_score = max(0.0, min(100.0, rpi))
final_clamp(rpi) == Max(0, Min(Pts(100), rpi))

\* calculate_rpi raises when one of the calculators raises
RpiRaises(v) == Q2Raises(v)

calculate_rpi(v, f, w) ==
    LET cve_id == v.vid
        has_kev == cve_id \in DOMAIN f.kev_data
        in_epss == cve_id \in DOMAIN f.epss_data
        epss_score == IF in_epss THEN f.epss_data[cve_id].epss ELSE 0
        epss_percentile == IF in_epss THEN f.epss_data[cve_id].percentile ELSE 0
        \* steps 8 to 11: c1..c5 are the coupled subscores
        metrics(c1, c2, c3, c4, c5, has_poc) ==
            [q1_exploitability |-> c1, q2_exposure |-> c2, q3_impact |-> c3,
             q4_fixability |-> c4, q5_urgency |-> c5,
             rpi_score |->
                 final_clamp(penalties_then_override(v,
                     validation_boost(v, weighted_rpi(w, c1, c2, c3, c4, c5)))),
             domain |-> classify_domain(v), is_runtime |-> is_runtime_dependency(v),
             has_kev |-> has_kev, has_poc |-> has_poc,
             epss_score |-> epss_score, epss_percentile |-> epss_percentile]
        \* steps 5 and 7: ge, gs, fe are the gates and the environment factor
        coupled(q1, q2, q3, q4, q5, ge, gs, fe, has_poc) ==
            metrics(q1_coupled(q1, gs), q2_coupled(q2, fe),
                    occurrence_boost(v, q3_coupled(q3, ge)), q4,
                    q5_coupled(q5, ge, gs, fe), has_poc)
        \* steps 2 to 4: q1..q4 are the raw subscores
        gated(q1, q2, q3, q4, has_poc) ==
            coupled(q1, q2, q3, q4, calculate_q5_urgency(v, f, q1, q2, q3, q4),
                    g_exploit(has_kev, has_poc, epss_score), g_surface(q2),
                    _env_factor(v), has_poc)
    IN gated(calculate_q1_exploitability(v, f), calculate_q2_exposure(v),
             calculate_q3_impact(v), calculate_q4_fixability(v),
             check_poc_availability(f, cve_id).has_poc)

(***************************************************************************)
(* TieBreaker.get_tie_breaker_key (calculators.py)                         *)
(***************************************************************************)
\* '9999-12-31', the default of sla_deadline, as the number yyyymmdd.
\* v.sla_deadline is the date text as such a number, and -1 when the field is
\* present and null (the loader turns 'NaN' into None).
DefaultDeadline == 99991231

\* the order of the texts that occur as unique ids ('' first)
IdTokens == <<"", "1", "2", "a", "b">>

TokenRank(t) == CHOOSE i \in 1..Len(IdTokens) : IdTokens[i] = t

\* safe_value: present is FALSE for None, 'nan', 'none', '' and for a value
\* float() rejects
safe_value(present, val, default, negate) ==
    IF ~present THEN default ELSE IF negate THEN -val ELSE val

safe_bool(val) == IF is_true(val) THEN 1 ELSE 0

\* vuln_data.get('unique_id_from_tool', vuln_data.get('id', ''))
key_unique_id(v) ==
    IF v.unique_id_from_tool # Absent THEN v.unique_id_from_tool
    ELSE IF v.id # Absent THEN v.id
    ELSE ""

\* the first 18 fields of the key
tie_breaker_fields(v, m) ==
    << -safe_bool(v.violates_sla),
       safe_value(v.sla_days_known, v.sla_days, 999999, FALSE),
       v.sla_deadline,
       -safe_bool(v.verified),
       -safe_bool(v.dynamic_finding),
       safe_bool(v.false_p),
       safe_bool(v.is_mitigated),
       safe_bool(v.risk_accepted),
       safe_value(v.scanner_confidence >= 0, v.scanner_confidence, 50, TRUE),
       -(IF m.has_kev THEN 1 ELSE 0),
       safe_value(TRUE, m.epss_percentile, 0, TRUE),
       safe_value(v.nb_occurences > 0, v.nb_occurences, 1, TRUE),
       -v.ep_count,
       -(IF UrlPresent(v) THEN 1 ELSE 0),
       safe_value(v.cvss > 0, v.cvss, 0, TRUE),
       -(IF m.is_runtime THEN 1 ELSE 0),
       safe_value(v.effort_kind = "num", v.effort_num, 999999, FALSE),
       -safe_bool(v.has_jira_issue) >>

\* the key with the same last field for every record
key_without_unique_id(v, m) == Append(tie_breaker_fields(v, m), 0)

get_tie_breaker_key(v, m) ==
    Append(tie_breaker_fields(v, m), TokenRank(key_unique_id(v)))

\* what kind of value the key holds at each position: sla_deadline is put
\* into the key as it is, a text or None; the unique id is the text of
\* unique_id_from_tool, else the JSON number of id, else the text ''
key_kinds(v) ==
    [p \in 1..19 |->
       IF p = 3 THEN (IF v.sla_deadline < 0 THEN "null" ELSE "text")
       ELSE IF p = 19
         THEN (IF v.unique_id_from_tool = Absent /\ v.id # Absent THEN "number" ELSE "text")
       ELSE "number"]

\* the comparison of the keys of two scored records raises TypeError: at the
\* first position where they are not equal the kinds differ
key_compare_raises(x, y) ==
    \E p \in 1..19 :
        /\ x.tie_breaker_key[p] # y.tie_breaker_key[p]
        /\ \A q \in 1..(p - 1) : x.tie_breaker_key[q] = y.tie_breaker_key[q]
        /\ key_kinds(x.v)[p] # key_kinds(y.v)[p]

(***************************************************************************)
(* Tuple comparison and sorted()                                           *)
(***************************************************************************)
\* Python's ordering of two tuples of the same length
TupleLess(a, b) ==
    \E i \in 1..Len(a) : a[i] < b[i] /\ \A j \in 1..(i - 1) : a[j] = b[j]

\* sorted(s, key = keys): a stable sort; keys[i] is the key of s[i]
StablePosition(keys, i) ==
    Cardinality({j \in 1..Len(keys) : TupleLess(keys[j], keys[i])})
      + Cardinality({j \in 1..(i - 1) : keys[j] = keys[i]}) + 1

StableSort(s, keys) ==
    [p \in 1..Len(s) |-> s[CHOOSE i \in 1..Len(s) : StablePosition(keys, i) = p]]

\* the key with the score not negated
key_rpi_ascending(x) == <<x.rpi_score>> \o x.tie_breaker_key

\* key = lambda x: (-x['rpi_score'], x['tie_breaker_key'])
primary_key(x) == <<-x.rpi_score>> \o x.tie_breaker_key

\* sorted() of step 4 raises: a sort has to compare two records that are
\* next to each other in its order, and these two have the same score
primary_sort_raises(res) ==
    \E i, j \in 1..Len(res) :
        res[i].rpi_score = res[j].rpi_score /\ key_compare_raises(res[i], res[j])

\* the sort with the lowest score first
sort_lowest_first(res) ==
    StableSort(res, [i \in 1..Len(res) |-> <<res[i].rpi_score>> \o res[i].tie_breaker_key])

\* step 4 of process_vulnerabilities
primary_sort(res) == StableSort(res, [i \in 1..Len(res) |-> primary_key(res[i])])

(***************************************************************************)
(* Funnel re-ranker (prioritizer.py)                                       *)
(***************************************************************************)
\* VulnerabilityPrioritizer._safe_bool: True, 'true', '1', 'yes' (and the
\* number 1, whose str() is '1')
_safe_bool(val) == val \in {"True", "'true'", "'yes'", "'1'", "1"}

\* round(s, 2): to the nearest 1/100 of a point, a half going to the even side
round2(x) ==
    LET lo == (x \div 100) * 100
        r == x % 100
    IN IF r < 50 THEN lo
       ELSE IF r > 50 THEN lo + 100
       ELSE IF (lo \div 100) % 2 = 0 THEN lo ELSE lo + 100

_cohort_bucket(x) ==
    LET m == x.rpi_metrics
    IN IF _safe_bool(x.v.violates_sla) THEN 0
       ELSE IF m.has_kev THEN 1
       ELSE IF m.has_poc THEN 2
       ELSE IF m.epss_percentile >= 9000 THEN 3
       ELSE IF m.q2_exposure >= Pts(80) /\ m.q3_impact >= Pts(80) THEN 4
       ELSE 5

_parse_effort(v) ==
    CASE v.effort_kind = "num"    -> v.effort_num
      [] v.effort_kind = "low"    -> 1
      [] v.effort_kind = "medium" -> 5
      [] v.effort_kind = "high"   -> 10
      [] OTHER                    -> 5

\* integer square root
RECURSIVE isqrt_between(_, _, _)
isqrt_between(n, lo, hi) ==
    IF lo >= hi THEN lo
    ELSE LET mid == (lo + hi + 1) \div 2
         IN IF mid * mid <= n THEN isqrt_between(n, mid, hi)
            ELSE isqrt_between(n, lo, mid - 1)

isqrt(n) == isqrt_between(n, 0, 30000)

\* mcdm_weights in 1/100 (prioritizer.DEFAULT_MCDM_WEIGHTS), in the order
\* q1, q2, q3, q5, epss, occ, conf, effort
mcdm_weights == <<22, 18, 26, 14, 8, 6, 4, 2>>

SumSeq(s) ==
    LET RECURSIVE go(_)
        go(k) == IF k = 0 THEN 0 ELSE s[k] + go(k - 1)
    IN go(Len(s))

\* the closeness coefficient in 1/100000.  Normalised criteria are in 1/1000,
\* weighted criteria and the two distances in 1/10000.
_local_topsis_score(x) ==
    LET m == x.rpi_metrics
        v == x.v
        occ == v.nb_occurences
        conf0 == IF v.scanner_confidence < 0 THEN 0 ELSE v.scanner_confidence
        conf == IF conf0 > 100 THEN conf0 \div 100 ELSE conf0
        eff == _parse_effort(v)
        eff_cap == Max(1, eff)
        norm == << m.q1_exploitability \div 1000,
                   m.q2_exposure \div 1000,
                   m.q3_impact \div 1000,
                   m.q5_urgency \div 1000,
                   m.epss_percentile \div 10,
                   (1000 * occ) \div (1 + occ),
                   conf * 10,
                   1000 - (1000 * Min(eff, eff_cap)) \div eff_cap >>
        weighted == [k \in 1..8 |-> (mcdm_weights[k] * norm[k]) \div 10]
        d_plus == isqrt(SumSeq([k \in 1..8 |-> (10000 - weighted[k]) * (10000 - weighted[k])]))
        d_minus == isqrt(SumSeq([k \in 1..8 |-> weighted[k] * weighted[k]]))
    IN IF d_plus + d_minus = 0 THEN 0
       ELSE (d_minus * 100000) \div (d_plus + d_minus)

\* key = lambda x: (x[0], -x[1], x[2])
funnel_key(x) == <<_cohort_bucket(x), -_local_topsis_score(x)>> \o x.tie_breaker_key

\* tuples.sort of _reorder_equal_group raises
reorder_raises(block) ==
    \E i, j \in 1..Len(block) :
        /\ _cohort_bucket(block[i]) = _cohort_bucket(block[j])
        /\ _local_topsis_score(block[i]) = _local_topsis_score(block[j])
        /\ key_compare_raises(block[i], block[j])

\* the block turned around
reorder_reversed(block) == [i \in 1..Len(block) |-> block[Len(block) + 1 - i]]

\* the re-ranking that also writes the rounded score into each record
reorder_rounding_score(block) ==
    StableSort([i \in 1..Len(block) |-> [block[i] EXCEPT !.rpi_score = round2(@)]],
               [i \in 1..Len(block) |-> funnel_key(block[i])])

_reorder_equal_group(block) ==
    StableSort(block, [i \in 1..Len(block) |-> funnel_key(block[i])])

\* the indices of head, in order, whose rounded score is key
group_indices(head, key) ==
    SelectSeq([i \in 1..Len(head) |-> i], LAMBDA i : round2(head[i].rpi_score) = key)

\* the keys of the groups in the order the dict received them
RECURSIVE group_keys(_, _)
group_keys(head, i) ==
    IF i = 0 THEN <<>>
    ELSE LET before == group_keys(head, i - 1)
             key == round2(head[i].rpi_score)
         IN IF \E k \in 1..Len(before) : before[k] = key THEN before
            ELSE Append(before, key)

SeqMax(s, idxs) == CHOOSE a \in {s[idxs[k]].rpi_score : k \in 1..Len(idxs)} :
                      \A k \in 1..Len(idxs) : s[idxs[k]].rpi_score <= a
SeqMin(s, idxs) == CHOOSE a \in {s[idxs[k]].rpi_score : k \in 1..Len(idxs)} :
                      \A k \in 1..Len(idxs) : s[idxs[k]].rpi_score >= a

\* a group taken for its size alone
qualifies_by_size(cfg, head, idxs) == Len(idxs) >= cfg.funnel_threshold

qualifies(cfg, head, idxs) ==
    /\ Len(idxs) >= cfg.funnel_threshold
    /\ SeqMax(head, idxs) - SeqMin(head, idxs) <= cfg.funnel_equal_epsilon

\* the loop over groups.items(): the first group of the largest size among
\* the qualifying ones, <<>> when there is none
RECURSIVE candidate_scan(_, _, _, _, _)
candidate_scan(cfg, head, keys, k, best) ==
    IF k > Len(keys) THEN best
    ELSE LET idxs == group_indices(head, keys[k])
             take == qualifies(cfg, head, idxs) /\ (best = <<>> \/ Len(idxs) > Len(best))
         IN candidate_scan(cfg, head, keys, k + 1, IF take THEN idxs ELSE best)

candidate_idx_list(cfg, head) ==
    candidate_scan(cfg, head, group_keys(head, Len(head)), 1, <<>>)

top_k_of(cfg, prioritized) == Min(Len(prioritized), cfg.top_k_for_funnel)

\* the re-ranking applied to the whole list instead of the chosen group
funnel_whole_list(cfg, prioritized) ==
    IF ~cfg.funnel_enabled \/ prioritized = <<>> THEN prioritized
    ELSE _reorder_equal_group(prioritized)

_apply_funneling_if_needed(cfg, prioritized) ==
    IF ~cfg.funnel_enabled \/ prioritized = <<>> THEN prioritized
    ELSE LET top_k == top_k_of(cfg, prioritized)
             block(head, cand) == [n \in 1..Len(cand) |-> head[cand[n]]]
             new_head(head, cand, re_sorted) ==
                 [i \in 1..Len(head) |->
                    IF \E n \in 1..Len(cand) : cand[n] = i
                      THEN re_sorted[CHOOSE n \in 1..Len(cand) : cand[n] = i]
                      ELSE head[i]]
             reordered(head, cand) ==
                 IF cand = <<>> THEN prioritized
                 ELSE new_head(head, cand, _reorder_equal_group(block(head, cand)))
                        \o SubSeq(prioritized, top_k + 1, Len(prioritized))
             in_head(head) == reordered(head, candidate_idx_list(cfg, head))
         IN in_head(SubSeq(prioritized, 1, top_k))

\* _apply_funneling_if_needed raises: the sort of the chosen block does
funnel_raises(cfg, prioritized) ==
    /\ cfg.funnel_enabled
    /\ prioritized # <<>>
    /\ LET block(head, cand) == [n \in 1..Len(cand) |-> head[cand[n]]]
           chosen(head) == block(head, candidate_idx_list(cfg, head))
       IN reorder_raises(chosen(SubSeq(prioritized, 1, top_k_of(cfg, prioritized))))

(***************************************************************************)
(* Deduplicator (prioritizer.py)                                           *)
(***************************************************************************)
\* str(id(vuln)) of the i-th object of the input list
ObjectIds == <<"@1", "@2", "@3", "@4", "@5", "@6">>

\* cve_id or hash_code or unique_id or str(vuln.get('id', '')), and
\* str(id(vuln)) when all of them are empty
identifier_of(v, i) ==
    LET cve_id == v.vid
        hash_code == v.hash_code
        unique_id == IF v.unique_id_from_tool = Absent THEN "" ELSE v.unique_id_from_tool
        own_id == IF v.id = Absent THEN "" ELSE v.id
    IN IF cve_id # "" THEN cve_id
       ELSE IF hash_code # "" THEN hash_code
       ELSE IF unique_id # "" THEN unique_id
       ELSE IF own_id # "" THEN own_id
       ELSE ObjectIds[i]

\* the first loop: unique_map as the sequence of its keys (order) and, for
\* each key, the index of the record stored under it (first)
RECURSIVE dedup_scan(_, _)
dedup_scan(vl, n) ==
    IF n = 0 THEN [order |-> <<>>, first |-> <<>>]
    ELSE LET prev == dedup_scan(vl, n - 1)
             identifier == identifier_of(vl[n], n)
         IN IF \E k \in 1..Len(prev.order) : prev.order[k] = identifier
              THEN prev
              ELSE [order |-> Append(prev.order, identifier),
                    first |-> Append(prev.first, n)]

\* counts[identifier]
dedup_count(vl, identifier) ==
    Cardinality({j \in 1..Len(vl) : identifier_of(vl[j], j) = identifier})

\* the deduplicator leaving nb_occurences as it came
dedup_without_count(vl) ==
    LET st == dedup_scan(vl, Len(vl))
    IN [k \in 1..Len(st.order) |-> vl[st.first[k]]]

\* the deduplicator keeping the last record of each identity
dedup_keep_last(vl) ==
    LET st == dedup_scan(vl, Len(vl))
        last(identifier) ==
            CHOOSE j \in 1..Len(vl) :
                /\ identifier_of(vl[j], j) = identifier
                /\ \A h \in (j + 1)..Len(vl) : identifier_of(vl[h], h) # identifier
    IN [k \in 1..Len(st.order) |->
          [vl[last(st.order[k])] EXCEPT !.nb_occurences = dedup_count(vl, st.order[k])]]

\* the second loop writes the count into each kept record
_deduplicate_vulnerabilities(vl) ==
    LET st == dedup_scan(vl, Len(vl))
    IN [k \in 1..Len(st.order) |->
          [vl[st.first[k]] EXCEPT !.nb_occurences = dedup_count(vl, st.order[k])]]

(***************************************************************************)
(* Worker and configuration (prioritizer.py, models.py)                    *)
(***************************************************************************)
\* the worker without its test of the critical fields
lacks_nothing(v) == FALSE

\* no title, no vulnerability_ids and no component_name
lacks_minimal_identity(v) ==
    v.title \in {Absent, "null"} /\ v.vid = "" /\ ~v.has_component

\* the worker with an EPSS lookup that raises for an id the map lacks
worker_needing_signals(v, f, w) ==
    IF \/ lacks_minimal_identity(v)
       \/ RpiRaises(v)
       \/ extract_cve_id(v.vid) # "" /\ extract_cve_id(v.vid) \notin DOMAIN f.epss_data
      THEN [ok |-> FALSE, metrics |-> <<>>]
      ELSE [ok |-> TRUE, metrics |-> calculate_rpi(v, f, w)]

\* process_vulnerability_worker: metrics is None (ok = FALSE) for a rejected
\* record and for one whose calculation raises
process_vulnerability_worker(v, f, w) ==
    IF lacks_minimal_identity(v) \/ RpiRaises(v)
      THEN [ok |-> FALSE, metrics |-> <<>>]
      ELSE [ok |-> TRUE, metrics |-> calculate_rpi(v, f, w)]

\* ProcessingConfig.validate: TRUE when it returns, FALSE when it raises
validate(w) ==
    LET total_weight == w.q1 + w.q2 + w.q3 + w.q4 + w.q5
        diff == IF total_weight >= 100 THEN total_weight - 100 ELSE 100 - total_weight
    IN ~(diff > 1)

(***************************************************************************)
(* The world outside: what the feeds answer when a fetch succeeds          *)
(***************************************************************************)
KevFeed == [c \in {"CVE-2021-0001"} |-> [known_ransomware |-> FALSE, recent |-> FALSE]]

EpssFeed == [c \in CveIds |->
               IF c = "CVE-2021-0001" THEN [epss |-> 6000, percentile |-> 9500]
                                      ELSE [epss |-> 1000, percentile |-> 4000]]

NvdFeed == [c \in CveIds |-> IF c = "CVE-2022-0002" THEN "exploitdb" ELSE "none"]

NoData == [c \in {} |-> 0]

\* ExternalDataFetcher.__init__
NewFetcher == [kev_data |-> NoData, epss_data |-> NoData, nvd |-> NvdFeed]

(***************************************************************************)
(* Input records                                                           *)
(***************************************************************************)
Base ==
    [vid |-> "", hash_code |-> "", unique_id_from_tool |-> Absent, id |-> Absent,
     title |-> "text", has_component |-> TRUE,
     env |-> "none", path |-> "plain", domain |-> "general", platform |-> FALSE,
     cwe |-> "other", dynamic_finding |-> "False", static_finding |-> "True",
     verified |-> "False", url |-> "none", ep_count |-> 0, ep_api |-> FALSE,
     ep_admin |-> FALSE, svc_public |-> FALSE, cvss |-> 0, severity |-> "medium",
     nb_occurences |-> 0, criticality |-> 0, sens |-> 0, patch |-> FALSE,
     effort_kind |-> "absent", effort_num |-> 0, has_jira_issue |-> "False",
     scanner_confidence |-> -1, violates_sla |-> "False", sla_days_known |-> FALSE,
     sla_days |-> 0, sla_age |-> -1, sla_deadline |-> DefaultDeadline,
     risk_accepted |-> "False", is_mitigated |-> "False", false_p |-> "False"]

\* a finding past its SLA
Overdue == [Base EXCEPT !.violates_sla = "True", !.sla_days_known = TRUE, !.sla_days = -5]

Catalog ==
    { \* one CVE reported by two tools, and another CVE with the first one's
      \* content hash and tool id
      [Base EXCEPT !.vid = "CVE-2021-0001", !.hash_code = "a",
                   !.unique_id_from_tool = "a", !.cvss = 98, !.domain = "database",
                   !.path = "runtime", !.nb_occurences = 150],
      [Base EXCEPT !.vid = "CVE-2021-0001", !.hash_code = "b",
                   !.unique_id_from_tool = "b", !.cvss = 30, !.domain = "database",
                   !.nb_occurences = 150],
      [Base EXCEPT !.vid = "CVE-2022-0002", !.hash_code = "a",
                   !.unique_id_from_tool = "a", !.cvss = 60, !.env = "prod",
                   !.url = "public", !.dynamic_finding = "True"],
      \* the first CVE in another spelling
      [Base EXCEPT !.vid = "cve-2021-0001", !.unique_id_from_tool = "a", !.cvss = 75],
      \* overdue findings, which all score the SLA floor
      [Overdue EXCEPT !.vid = "GHSA-x"],
      [Overdue EXCEPT !.hash_code = "a"],
      [Overdue EXCEPT !.hash_code = "b", !.unique_id_from_tool = "b"],
      [Overdue EXCEPT !.id = "1", !.sla_days = -3, !.cvss = 98, !.risk_accepted = "True",
                      !.path = "runtime", !.url = "http", !.ep_count = 2],
      [Overdue EXCEPT !.id = "2", !.sla_days = -1, !.title = "null"],
      \* nothing to tell it by: no title, no identifier, no component
      [Base EXCEPT !.title = Absent, !.has_component = FALSE],
      \* a url that is a number
      [Base EXCEPT !.hash_code = "b", !.url = "number"] }

(***************************************************************************)
(* Configurations                                                          *)
(***************************************************************************)
Configs ==
    { [weights |-> DefaultWeights, funnel_enabled |-> TRUE, top_k_for_funnel |-> 1000,
       funnel_threshold |-> 2, funnel_equal_epsilon |-> 1],
      [weights |-> DefaultWeights, funnel_enabled |-> TRUE, top_k_for_funnel |-> 2,
       funnel_threshold |-> 2, funnel_equal_epsilon |-> 1],
      [weights |-> [q1 |-> 50, q2 |-> 30, q3 |-> 40, q4 |-> 10, q5 |-> 20],
       funnel_enabled |-> FALSE, top_k_for_funnel |-> 1000,
       funnel_threshold |-> 50, funnel_equal_epsilon |-> 1] }

MaxBatch == 3

Batches == UNION {[1..n -> Catalog] : n \in 0..MaxBatch}

(***************************************************************************)
(* Requests to the outside (q1_calculator.py)                              *)
(*   requests.kev  : how many times the KEV catalog was loaded             *)
(*   requests.epss : the normalized CVE ids EPSS was asked for             *)
(*   requests.nvd  : per normalized CVE id, how many times NVD was asked   *)
(*   cache_files   : the CVE ids that have a file cache/<cve>.json         *)
(***************************************************************************)
NoRequests == [kev |-> 0, epss |-> {}, nvd |-> [c \in CveIds |-> 0]]

\* the CVE id a scoring task calls check_poc_availability with, "" when it
\* makes no call or the id holds no CVE.  The task runs on its own copy of
\* the fetcher, whose poc_cache is empty: its first call misses, its second
\* and third hit the copy's cache.
poc_lookup(v) == IF lacks_minimal_identity(v) THEN "" ELSE extract_cve_id(v.vid)

\* _safe_json_get: NVD is asked unless the task finds the file of the CVE
nvd_asked(cve, seen) == cve # "" /\ cve \notin seen

\* What one scoring task does to the outside.  seen is what the task finds
\* in cache/ when it looks: the files of the tasks that stored theirs before
\* that, which is some of the files there are when the task completes.
\* stored is whether the answer was written (status 200 and cache/ writable).
TaskRequests(v) ==
    \E seen \in SUBSET cache_files, stored \in BOOLEAN :
        /\ requests' = [requests EXCEPT
                          !.nvd = IF nvd_asked(poc_lookup(v), seen)
                                    THEN [@ EXCEPT ![poc_lookup(v)] = @ + 1]
                                    ELSE @]
        /\ cache_files' = IF nvd_asked(poc_lookup(v), seen) /\ stored
                            THEN cache_files \cup {poc_lookup(v)}
                            ELSE cache_files

(***************************************************************************)
(* process_vulnerabilities (prioritizer.py), step by step                  *)
(***************************************************************************)
Init ==
    /\ pc = "new"
    /\ config \in Configs
    /\ vuln_list \in Batches
    /\ unique_vulns = <<>>
    /\ fetcher = NewFetcher
    /\ pending = {}
    /\ results = <<>>
    /\ errors = 0
    /\ sorted_results = <<>>
    /\ requests = NoRequests
    /\ cache_files = {}

\* VulnerabilityPrioritizer.__init__: the configuration is taken as it is
\* given; validate() is not called
Construct ==
    /\ pc = "new"
    /\ pc' = "ready"
    /\ UNCHANGED <<config, vuln_list, unique_vulns, fetcher, pending, results,
                   errors, sorted_results, requests, cache_files>>

\* step 1
Deduplicate ==
    /\ pc = "ready"
    /\ unique_vulns' = _deduplicate_vulnerabilities(vuln_list)
    /\ pc' = "deduped"
    /\ UNCHANGED <<config, vuln_list, fetcher, pending, results, errors, sorted_results,
                   requests, cache_files>>

\* the normalized CVE ids of the batch
cve_list(uv) == {extract_cve_id(uv[i].vid) : i \in 1..Len(uv)} \ {""}

\* step 2: fetch_kev_catalog, then fetch_epss_scores when there is a CVE.
\* Either request may fail, which leaves its dict as it was.
Prefetch ==
    /\ pc = "deduped"
    /\ \E kev_ok, epss_ok \in BOOLEAN :
         fetcher' = [fetcher EXCEPT
                       !.kev_data = IF kev_ok THEN KevFeed ELSE @,
                       !.epss_data = IF epss_ok /\ cve_list(unique_vulns) # {}
                                       THEN [c \in cve_list(unique_vulns) \cap DOMAIN EpssFeed
                                               |-> EpssFeed[c]]
                                       ELSE @]
    /\ requests' = [requests EXCEPT !.kev = @ + 1, !.epss = cve_list(unique_vulns)]
    /\ pc' = "prefetched"
    /\ UNCHANGED <<config, vuln_list, unique_vulns, pending, results, errors,
                   sorted_results, cache_files>>

\* step 3 with no unique record: ProcessPoolExecutor(max_workers=0) raises
PoolRaises ==
    /\ pc = "prefetched"
    /\ Len(unique_vulns) = 0
    /\ pc' = "raised"
    /\ UNCHANGED <<config, vuln_list, unique_vulns, fetcher, pending, results,
                   errors, sorted_results, requests, cache_files>>

\* the tasks submitted before the prefetch
SubmitBeforePrefetch ==
    /\ pc = "deduped"
    /\ Len(unique_vulns) > 0
    /\ pending' = 1..Len(unique_vulns)
    /\ pc' = "scoring"
    /\ UNCHANGED <<config, vuln_list, unique_vulns, fetcher, results, errors,
                   sorted_results, requests, cache_files>>

\* step 3: one task per unique record
Submit ==
    /\ pc = "prefetched"
    /\ Len(unique_vulns) > 0
    /\ pending' = 1..Len(unique_vulns)
    /\ pc' = "scoring"
    /\ UNCHANGED <<config, vuln_list, unique_vulns, fetcher, results, errors, sorted_results,
                   requests, cache_files>>

\* the record as the loop appends it to results; obj is the object it is
scored(i, v, m) ==
    [obj |-> i, v |-> v, rpi_metrics |-> m, rpi_score |-> m.rpi_score,
     tie_breaker_key |-> get_tie_breaker_key(v, m)]

\* one turn of the as_completed loop: task i is the next to complete
Collect(i) ==
    /\ pc = "scoring"
    /\ i \in pending
    /\ LET collect(r) ==
               IF r.ok
                 THEN /\ results' = Append(results, scored(i, unique_vulns[i], r.metrics))
                      /\ errors' = errors
                 ELSE /\ errors' = errors + 1
                      /\ results' = results
       IN collect(process_vulnerability_worker(unique_vulns[i], fetcher, config.weights))
    /\ TaskRequests(unique_vulns[i])
    /\ pending' = pending \ {i}
    /\ UNCHANGED <<pc, config, vuln_list, unique_vulns, fetcher, sorted_results>>

\* if not results: return []
ReturnEmpty ==
    /\ pc = "scoring"
    /\ pending = {}
    /\ results = <<>>
    /\ sorted_results' = <<>>
    /\ pc' = "done"
    /\ UNCHANGED <<config, vuln_list, unique_vulns, fetcher, pending, results, errors,
                   requests, cache_files>>

\* step 4
PrimarySort ==
    /\ pc = "scoring"
    /\ pending = {}
    /\ results # <<>>
    /\ IF primary_sort_raises(results)
         THEN /\ pc' = "raised"
              /\ sorted_results' = sorted_results
         ELSE /\ pc' = "sorted"
              /\ sorted_results' = primary_sort(results)
    /\ UNCHANGED <<config, vuln_list, unique_vulns, fetcher, pending, results, errors,
                   requests, cache_files>>

\* step 4.5
Funnel ==
    /\ pc = "sorted"
    /\ IF funnel_raises(config, sorted_results)
         THEN /\ pc' = "raised"
              /\ sorted_results' = sorted_results
         ELSE /\ pc' = "funneled"
              /\ sorted_results' = _apply_funneling_if_needed(config, sorted_results)
    /\ UNCHANGED <<config, vuln_list, unique_vulns, fetcher, pending, results, errors,
                   requests, cache_files>>

\* step 5: top_vuln.get('title', 'N/A')[:70] raises TypeError for a title
\* that is null; otherwise the list is returned
Finalize ==
    /\ pc = "funneled"
    /\ pc' = IF sorted_results[1].v.title = "null" THEN "raised" ELSE "done"
    /\ UNCHANGED <<config, vuln_list, unique_vulns, fetcher, pending, results, errors,
                   sorted_results, requests, cache_files>>

Next ==
    \/ Construct
    \/ Deduplicate
    \/ Prefetch
    \/ PoolRaises
    \/ Submit
    \/ \E i \in 1..MaxBatch : Collect(i)
    \/ ReturnEmpty
    \/ PrimarySort
    \/ Funnel
    \/ Finalize

Spec == Init /\ [][Next]_vars

(***************************************************************************)
(* calculate_rpi on its own: one call of the worker on one record          *)
(***************************************************************************)
Flags2 == {"True", "False"}

\* records that differ in what the gates, factors, boosts, penalties and
\* the override look at
RpiInputs ==
    { [Base EXCEPT !.violates_sla = f[1], !.risk_accepted = f[2], !.is_mitigated = f[3],
                   !.false_p = f[4], !.verified = f[5], !.dynamic_finding = f[6],
                   !.vid = c[1], !.cvss = c[2], !.severity = c[3],
                   !.env = e[1], !.url = e[2], !.svc_public = e[3],
                   !.scanner_confidence = e[4], !.nb_occurences = e[5]] :
        f \in {"True", "'true'", "'yes'", "False"} \X Flags2 \X Flags2 \X Flags2
                \X Flags2 \X Flags2,
        c \in {<<"", 0, "low">>, <<"CVE-2021-0001", 98, "critical">>,
               <<"CVE-2022-0002", 75, "high">>},
        e \in {<<"none", "none", FALSE, -1, 0>>, <<"prod", "public", TRUE, 90, 150>>,
               <<"dev", "internal", FALSE, 30, 7>>, <<"none", "number", FALSE, -1, 0>>} }

Fetchers == {NewFetcher, [NewFetcher EXCEPT !.kev_data = KevFeed, !.epss_data = EpssFeed]}

InitRpi ==
    /\ pc = "rpi_call"
    /\ config \in Configs
    /\ vuln_list \in {<<v>> : v \in RpiInputs}
    /\ unique_vulns = <<>>
    /\ fetcher \in Fetchers
    /\ pending = {}
    /\ results = <<>>
    /\ errors = 0
    /\ sorted_results = <<>>
    /\ requests = NoRequests
    /\ cache_files = {}

\* process_vulnerability_worker(vuln_list[1]) and what the caller keeps of it
ScoreRecord ==
    /\ pc = "rpi_call"
    /\ LET collect(r) ==
               IF r.ok
                 THEN /\ results' = <<scored(1, vuln_list[1], r.metrics)>>
                      /\ errors' = errors
                 ELSE /\ errors' = errors + 1
                      /\ results' = results
       IN collect(process_vulnerability_worker(vuln_list[1], fetcher, config.weights))
    /\ TaskRequests(vuln_list[1])
    /\ pc' = "rpi_returned"
    /\ UNCHANGED <<config, vuln_list, unique_vulns, fetcher, pending, sorted_results>>

NextRpi == ScoreRecord

SpecRpi == InitRpi /\ [][NextRpi]_vars

(***************************************************************************)
(* Steps 4 to 5 on their own: the ranking of a batch whose tasks have all  *)
(* been collected                                                          *)
(***************************************************************************)
\* a finding whose subscores are high enough for the score to reach 100
Severe(cve) ==
    [Base EXCEPT !.vid = cve, !.cvss = 98, !.severity = "critical", !.env = "prod",
                 !.url = "public", !.svc_public = TRUE, !.path = "runtime",
                 !.platform = TRUE, !.cwe = "critical", !.sens = 3,
                 !.dynamic_finding = "True", !.verified = "True",
                 !.sla_days_known = TRUE, !.sla_days = 2]

\* a finding that is both risk-accepted and a false positive
Waived == [Base EXCEPT !.risk_accepted = "True", !.false_p = "True"]

RankCatalog ==
    { \* three findings of score 100: one in KEV, with a deadline that is null,
      \* one with a PoC only, and one in KEV whose id is written in lower case
      [Severe("CVE-2021-0001") EXCEPT !.sla_deadline = -1],
      Severe("CVE-2022-0002"),
      Severe("cve-2021-0001"),
      \* two findings whose scores are not equal and round to the same 1/100
      [Waived EXCEPT !.cvss = 75, !.patch = TRUE],
      [Waived EXCEPT !.cvss = 78, !.has_jira_issue = "True"],
      \* two findings of one score that differ in violates_sla only, which no
      \* calculator reads as True for the text 'yes'
      [Base EXCEPT !.cvss = 40],
      [Base EXCEPT !.cvss = 40, !.violates_sla = "'yes'"] }

RankConfigs ==
    { [weights |-> DefaultWeights, funnel_enabled |-> TRUE, top_k_for_funnel |-> 1000,
       funnel_threshold |-> 2, funnel_equal_epsilon |-> 1],
      [weights |-> DefaultWeights, funnel_enabled |-> TRUE, top_k_for_funnel |-> 1000,
       funnel_threshold |-> 1, funnel_equal_epsilon |-> 1],
      [weights |-> DefaultWeights, funnel_enabled |-> TRUE, top_k_for_funnel |-> 3,
       funnel_threshold |-> 2, funnel_equal_epsilon |-> 100],
      [weights |-> DefaultWeights, funnel_enabled |-> FALSE, top_k_for_funnel |-> 1000,
       funnel_threshold |-> 2, funnel_equal_epsilon |-> 1] }

MaxRank == 5

\* batches of different findings
RankBatches ==
    {b \in UNION {[1..n -> RankCatalog] : n \in 1..MaxRank} :
        \A i, j \in 1..Len(b) : i # j => b[i] # b[j]}

\* the fetcher after step 2 with both requests answered
prefetched(uv) ==
    [NewFetcher EXCEPT !.kev_data = KevFeed,
                       !.epss_data = [c \in cve_list(uv) \cap DOMAIN EpssFeed |-> EpssFeed[c]]]

\* results after the as_completed loop when the tasks complete in the order
\* of their submission
collected_in_order(uv, f, w) ==
    LET worked(i) == process_vulnerability_worker(uv[i], f, w)
        ok == SelectSeq([i \in 1..Len(uv) |-> i], LAMBDA i : worked(i).ok)
    IN [k \in 1..Len(ok) |-> scored(ok[k], uv[ok[k]], worked(ok[k]).metrics)]

\* the requests of a batch none of whose CVE ids had a cache file
requests_of(uv) ==
    [kev |-> 1, epss |-> cve_list(uv),
     nvd |-> [c \in CveIds |-> Cardinality({i \in 1..Len(uv) : poc_lookup(uv[i]) = c})]]

InitRank ==
    /\ pc = "scoring"
    /\ config \in RankConfigs
    /\ vuln_list \in RankBatches
    /\ unique_vulns = _deduplicate_vulnerabilities(vuln_list)
    /\ fetcher = prefetched(unique_vulns)
    /\ pending = {}
    /\ results = collected_in_order(unique_vulns, fetcher, config.weights)
    /\ errors = Len(unique_vulns) - Len(results)
    /\ sorted_results = <<>>
    /\ requests = requests_of(unique_vulns)
    /\ cache_files = {}

NextRank ==
    \/ PrimarySort
    \/ Funnel
    \/ Finalize

SpecRank == InitRank /\ [][NextRank]_vars

(***************************************************************************)
(* Properties of calculate_rpi                                             *)
(***************************************************************************)
\* C1: every scored record whose violates_sla flag is set (True or 'true')
\* has a final RPI of at least 85 (and at most 100), whatever the subscores,
\* the validation boost and the risk_accepted, is_mitigated and false_p
\* penalties: the override comes after the penalties and before the clamp.
SlaOverrideDominates ==
    \A i \in 1..Len(results) :
        is_true(results[i].v.violates_sla)
          => /\ results[i].rpi_score >= Pts(85)
             /\ results[i].rpi_score <= Pts(100)
             /\ results[i].rpi_metrics.rpi_score = results[i].rpi_score

\* an overdue record carrying all three penalties has been scored
SlaOverrideWitness ==
    \E i \in 1..Len(results) :
        /\ is_true(results[i].v.violates_sla)
        /\ is_true(results[i].v.risk_accepted)
        /\ is_true(results[i].v.is_mitigated)
        /\ is_true(results[i].v.false_p)
        /\ results[i].rpi_score = Pts(85)

InRange(x) == 0 <= x /\ x <= Pts(100)

\* C2: in every scored record the five coupled subscores stored in the
\* metrics and the final RPI lie in [0, 100].
ScoresInRange ==
    \A i \in 1..Len(results) :
        LET m == results[i].rpi_metrics
        IN /\ InRange(m.q1_exploitability)
           /\ InRange(m.q2_exposure)
           /\ InRange(m.q3_impact)
           /\ InRange(m.q4_fixability)
           /\ InRange(m.q5_urgency)
           /\ InRange(m.rpi_score)
           /\ InRange(results[i].rpi_score)

\* a record was scored under the default weights whose RPI the clamp cut to
\* 100 and whose coupled impact the coupling cut to 100
ScoresInRangeWitness ==
    /\ config.weights = DefaultWeights
    /\ \E i \in 1..Len(results) :
         /\ results[i].rpi_score = Pts(100)
         /\ results[i].rpi_metrics.q3_impact = Pts(100)
         /\ ~is_true(results[i].v.violates_sla)

(***************************************************************************)
(* Properties of the tie-breaker and of Primary Sort                       *)
(***************************************************************************)
\* the first 18 fields of two keys agree
SameButUniqueId(a, b) == \A p \in 1..18 : a[p] = b[p]

\* C3: any two scored records of a batch whose unique ids (field 19 of the
\* key: unique_id_from_tool, else id, else '') differ have different
\* tie-break keys, and (-RPI, key) orders them strictly one way or the other.
DistinctIdsGiveStrictOrder ==
    \A i, j \in 1..Len(results) :
        (i # j /\ key_unique_id(results[i].v) # key_unique_id(results[j].v))
          => /\ results[i].tie_breaker_key # results[j].tie_breaker_key
             /\ \/ TupleLess(primary_key(results[i]), primary_key(results[j]))
                \/ TupleLess(primary_key(results[j]), primary_key(results[i]))

\* two scored records of equal RPI that only the unique id tells apart
DistinctIdsWitness ==
    \E i, j \in 1..Len(results) :
        /\ i # j
        /\ key_unique_id(results[i].v) # key_unique_id(results[j].v)
        /\ results[i].rpi_score = results[j].rpi_score
        /\ SameButUniqueId(results[i].tie_breaker_key, results[j].tie_breaker_key)

\* a precedes-or-equals b under (RPI descending, key ascending)
InPrimaryOrder(a, b) ==
    \/ a.rpi_score > b.rpi_score
    \/ /\ a.rpi_score = b.rpi_score
       /\ \/ a.tie_breaker_key = b.tie_breaker_key
          \/ TupleLess(a.tie_breaker_key, b.tie_breaker_key)

\* C7: the list Primary Sort produces holds every successfully scored record
\* exactly once, and each adjacent pair is ordered by RPI descending, then by
\* tie-break key ascending (smaller or equal).
PrimarySortOrdered ==
    pc = "sorted" =>
        /\ Len(sorted_results) = Len(results)
        /\ \A i \in 1..Len(results) :
             Cardinality({k \in 1..Len(sorted_results) : sorted_results[k] = results[i]}) = 1
        /\ \A k \in 1..(Len(sorted_results) - 1) :
             InPrimaryOrder(sorted_results[k], sorted_results[k + 1])

\* Primary Sort moved records: three of them, one pair decided by the RPI and
\* one pair by the key
PrimarySortWitness ==
    /\ pc = "sorted"
    /\ Len(sorted_results) = 3
    /\ sorted_results # results
    /\ sorted_results[1].rpi_score = sorted_results[2].rpi_score
    /\ TupleLess(sorted_results[1].tie_breaker_key, sorted_results[2].tie_breaker_key)
    /\ sorted_results[2].rpi_score > sorted_results[3].rpi_score

(***************************************************************************)
(* Properties of process_vulnerabilities                                   *)
(***************************************************************************)
\* what the worker returns for each unique record, collected in the order of
\* submission
SubmissionOrderResults ==
    LET ok == SelectSeq([i \in 1..Len(unique_vulns) |-> i],
                        LAMBDA i : process_vulnerability_worker(
                                       unique_vulns[i], fetcher, config.weights).ok)
    IN [k \in 1..Len(ok) |->
          scored(ok[k], unique_vulns[ok[k]],
                 process_vulnerability_worker(unique_vulns[ok[k]], fetcher,
                                              config.weights).metrics)]

SubmissionOrderOutput ==
    IF SubmissionOrderResults = <<>> THEN <<>>
    ELSE _apply_funneling_if_needed(config, primary_sort(SubmissionOrderResults))

RecordsOf(out) == [k \in 1..Len(out) |-> out[k].v]

\* C4: the sequence returned does not depend on the order in which the
\* results of the scoring tasks are collected: it is the sequence the run
\* returns when the tasks complete in the order of submission.
OutputIndependentOfCompletionOrder ==
    pc = "done" => RecordsOf(sorted_results) = RecordsOf(SubmissionOrderOutput)

\* C8: with weights that do not sum to 1.0 within 0.01 nothing is
\* deduplicated and nothing is scored.
InvalidWeightsRejected ==
    ~validate(config.weights) => (unique_vulns = <<>> /\ results = <<>>)

\* a record the worker drops: no title, no identifier and no component, or a
\* calculation that raises (a url that is a number)
Dropped(v) ==
    \/ (v.title \in {Absent, "null"} /\ v.vid = "" /\ ~v.has_component)
    \/ v.url = "number"

\* C9: a unique record with no title, no identifier and no component, or whose
\* scoring fails, is absent from the output and counts one error; every other
\* unique record is in the output exactly once; output size plus errors is the
\* number of unique records; a dropped record never makes the run raise.
ErrorsIsolated ==
    /\ pc = "scoring" => errors + Len(results) + Cardinality(pending) = Len(unique_vulns)
    /\ pc = "done" =>
         /\ Len(sorted_results) + errors = Len(unique_vulns)
         /\ errors = Cardinality({i \in 1..Len(unique_vulns) : Dropped(unique_vulns[i])})
         /\ \A i \in 1..Len(unique_vulns) :
              Cardinality({k \in 1..Len(sorted_results) :
                             sorted_results[k].obj = i /\ sorted_results[k].v = unique_vulns[i]})
                = IF Dropped(unique_vulns[i]) THEN 0 ELSE 1
    /\ pc = "raised" =>
         \/ unique_vulns = <<>>
         \/ sorted_results # <<>> /\ sorted_results[1].v.title = "null"

\* a run returned one record of three, the other two dropped for the two
\* different reasons
ErrorsIsolatedWitness ==
    /\ pc = "done"
    /\ errors = 2
    /\ Len(sorted_results) = 1
    /\ \E i \in 1..Len(unique_vulns) : unique_vulns[i].url = "number"
    /\ \E i \in 1..Len(unique_vulns) : unique_vulns[i].title = Absent

(***************************************************************************)
(* Properties of the funnel                                                *)
(***************************************************************************)
\* the positions at which two lists of the same length differ
Moved(before, after) == {i \in 1..Len(before) : after[i] # before[i]}

\* C5: in the step that applies the funnel to the list Primary Sort produced,
\* the positions that change all lie in the top-K head and all held records
\* of one and the same rounded RPI, and those records are only permuted among
\* these positions; every other record, in the head or beyond it (also one of
\* the same score beyond the top-K boundary), keeps its index.
FunnelIsolation ==
    [][pc = "sorted" =>
         /\ Len(sorted_results') = Len(sorted_results)
         /\ LET moved == Moved(sorted_results, sorted_results')
            IN /\ \A i \in moved : i <= config.top_k_for_funnel
               /\ \A i, j \in moved :
                    round2(sorted_results[i].rpi_score) = round2(sorted_results[j].rpi_score)
               /\ {sorted_results'[i] : i \in moved} = {sorted_results[i] : i \in moved}]_vars

\* the funnel has exchanged the two records of a head of two, and the third
\* record has their score
FunnelIsolationWitness ==
    /\ pc = "funneled"
    /\ config.top_k_for_funnel = 2
    /\ Len(sorted_results) = 3
    /\ Moved(primary_sort(results), sorted_results) = {1, 2}
    /\ sorted_results[3].rpi_score = sorted_results[1].rpi_score

(***************************************************************************)
(* Properties of the deduplicator                                          *)
(***************************************************************************)
AfterDedup == {"deduped", "prefetched", "scoring", "sorted", "funneled", "done", "raised"}

\* the identity the deduplicator gives the i-th raw record
InputIdentity(i) == identifier_of(vuln_list[i], i)

\* the raw records that are the first of their identity
FirstOccurrences ==
    {i \in 1..Len(vuln_list) : \A j \in 1..(i - 1) : InputIdentity(j) # InputIdentity(i)}

NthFirst(k) ==
    CHOOSE i \in FirstOccurrences : Cardinality({j \in FirstOccurrences : j <= i}) = k

\* C6: for every identity the deduplicator resolves, if exactly N raw
\* records have it then the output holds exactly one record for it (one
\* record per identity, in the order the identities first occur) and that
\* record's nb_occurences is N.
OneRecordPerIdentityWithCount ==
    pc \in AfterDedup =>
        /\ Len(unique_vulns) = Cardinality(FirstOccurrences)
        /\ \A k \in 1..Len(unique_vulns) :
             LET i == NthFirst(k)
             IN /\ identifier_of(unique_vulns[k], i) = InputIdentity(i)
                /\ unique_vulns[k].nb_occurences =
                     Cardinality({j \in 1..Len(vuln_list) : InputIdentity(j) = InputIdentity(i)})

\* three raw records of two identities: the first record came with
\* nb_occurences 150 and leaves with 2
OneRecordPerIdentityWitness ==
    /\ pc = "deduped"
    /\ Len(vuln_list) = 3
    /\ Len(unique_vulns) = 2
    /\ vuln_list[1].nb_occurences = 150
    /\ unique_vulns[1].nb_occurences = 2
    /\ unique_vulns[2].nb_occurences = 1

\* the identity by the precedence identifier, content hash, tool id,
\* synthetic id
IdentityByFourLevels(i) ==
    LET v == vuln_list[i]
    IN IF v.vid # "" THEN v.vid
       ELSE IF v.hash_code # "" THEN v.hash_code
       ELSE IF v.unique_id_from_tool \notin {Absent, ""} THEN v.unique_id_from_tool
       ELSE ObjectIds[i]

\* C10: the deduplicator merges two raw records exactly when the first
\* available of identifier, content hash, tool id and synthetic id is the
\* same for both: the output holds one record for each such identity.
FourLevelPrecedence ==
    pc \in AfterDedup =>
        Len(unique_vulns) = Cardinality({IdentityByFourLevels(i) : i \in 1..Len(vuln_list)})

\* a raw record with no identifier, no content hash and no tool-assigned id
Unidentified(v) ==
    v.vid = "" /\ v.hash_code = "" /\ v.unique_id_from_tool \in {Absent, ""}

\* the place in the output of the raw record i, a first occurrence
OutputPlace(i) == Cardinality({j \in FirstOccurrences : j <= i})

\* C11: two distinct raw records that each have no identifier, no content
\* hash and no tool-assigned unique id are never merged: each is in the
\* output as its own record, with occurrence count 1.
UnidentifiedNeverMerged ==
    pc \in AfterDedup =>
        \A i, j \in 1..Len(vuln_list) :
            (i # j /\ Unidentified(vuln_list[i]) /\ Unidentified(vuln_list[j]))
              => /\ i \in FirstOccurrences
                 /\ unique_vulns[OutputPlace(i)] = [vuln_list[i] EXCEPT !.nb_occurences = 1]

\* a record with its occurrence count left out of the comparison
WithoutCount(v) == [v EXCEPT !.nb_occurences = 0]

\* the raw records after the first of their identity
LaterOccurrences(i) ==
    {j \in (i + 1)..Len(vuln_list) : InputIdentity(j) = InputIdentity(i)}

\* C12: for each identity the record kept is the first raw record of that
\* identity in input order, every field other than the occurrence count as
\* it was; the later records of the identity add one to the count each and
\* change nothing else.
FirstOccurrenceKept ==
    pc \in AfterDedup =>
        \A k \in 1..Len(unique_vulns) :
            /\ WithoutCount(unique_vulns[k]) = WithoutCount(vuln_list[NthFirst(k)])
            /\ unique_vulns[k].nb_occurences
                 = 1 + Cardinality(LaterOccurrences(NthFirst(k)))

\* two raw records of one identity that differ in other fields were
\* deduplicated: the first one was kept, with count 2
FirstOccurrenceKeptWitness ==
    /\ pc = "deduped"
    /\ Len(vuln_list) = 2
    /\ Len(unique_vulns) = 1
    /\ WithoutCount(vuln_list[1]) # WithoutCount(vuln_list[2])
    /\ WithoutCount(unique_vulns[1]) = WithoutCount(vuln_list[1])
    /\ unique_vulns[1].nb_occurences = 2

(***************************************************************************)
(* Properties of the requests to the outside                               *)
(***************************************************************************)
\* C13: when the scoring tasks are submitted the KEV catalog has been loaded
\* (once) and EPSS has been asked for every normalized CVE id of the unique
\* records, and both calls have returned; while tasks are scored no KEV or
\* EPSS request is made and the two maps do not change.
PrefetchBeforeScoring ==
    [][/\ pc' = "scoring" =>
            /\ requests'.kev = 1
            /\ requests'.epss = cve_list(unique_vulns')
       /\ pc = "scoring" =>
            /\ requests'.kev = requests.kev
            /\ requests'.epss = requests.epss
            /\ fetcher' = fetcher]_vars

\* a task has been scored and has asked NVD, after a prefetch that asked
\* EPSS for the two CVE ids of the batch
PrefetchBeforeScoringWitness ==
    /\ pc = "scoring"
    /\ Len(results) >= 1
    /\ requests.kev = 1
    /\ requests.epss = CveIds
    /\ \E c \in CveIds : requests.nvd[c] >= 1

\* C14: within one batch NVD is asked for PoC information at most once per
\* normalized CVE id, however many records carry the id and in whatever
\* spelling.
PocAskedOncePerId == \A c \in CveIds : requests.nvd[c] <= 1

(***************************************************************************)
(* Properties of the scoring tasks                                         *)
(***************************************************************************)
\* the keys under which the calculators look a record up in the signal maps
OwnIds(v) == {v.vid, extract_cve_id(v.vid)}

\* the fetcher holding only the signals of the record's own identifier
OwnSignals(f, v) ==
    [f EXCEPT !.kev_data = [c \in DOMAIN f.kev_data \cap OwnIds(v) |-> f.kev_data[c]],
              !.epss_data = [c \in DOMAIN f.epss_data \cap OwnIds(v) |-> f.epss_data[c]]]

\* the record is the one of its task and its metrics are what calculate_rpi
\* gives for it alone
ScoredAlone(r) ==
    /\ r.v = unique_vulns[r.obj]
    /\ r.rpi_metrics = calculate_rpi(r.v, OwnSignals(fetcher, r.v), config.weights)
    /\ r.rpi_score = r.rpi_metrics.rpi_score

NothingKnown(f, v) ==
    LET cve == extract_cve_id(v.vid)
    IN /\ DOMAIN f.kev_data \cap {cve, v.vid} = {}
       /\ DOMAIN f.epss_data \cap {cve, v.vid} = {}
       /\ cve # "" => f.nvd[cve] = "none"

\* the metrics of a record scored without signals
ScoredWithoutSignal(r) ==
    LET m == r.rpi_metrics
    IN /\ ~m.has_kev
       /\ ~m.has_poc
       /\ m.epss_score = 0
       /\ m.epss_percentile = 0
       /\ g_exploit(m.has_kev, m.has_poc, m.epss_score) = 100
       /\ m.q3_impact = occurrence_boost(r.v, q3_coupled(calculate_q3_impact(r.v), 100))

\* C16: a record for whose identifier the provider has nothing (not in the
\* KEV catalog, not in the EPSS map, PoC check empty or failing) is still
\* scored, with KEV false, EPSS score and percentile 0 and PoC false, so that
\* its exploit gate is 1.00; no run raises because a signal is unavailable.
UnavailableSignalNotFatal ==
    /\ (pc = "scoring" /\ pending = {}) =>
         \A i \in 1..Len(unique_vulns) :
             (NothingKnown(fetcher, unique_vulns[i]) /\ ~Dropped(unique_vulns[i]))
               => \E k \in 1..Len(results) :
                      /\ results[k].obj = i
                      /\ ScoredWithoutSignal(results[k])
    /\ pc = "raised" =>
         \/ unique_vulns = <<>>
         \/ sorted_results # <<>> /\ sorted_results[1].v.title = "null"

\* a record with a CVE id was scored after both prefetch requests failed and
\* with no PoC known to NVD
UnavailableSignalWitness ==
    /\ pc = "scoring"
    /\ pending = {}
    /\ errors = 0
    /\ DOMAIN fetcher.kev_data = {}
    /\ DOMAIN fetcher.epss_data = {}
    /\ \E k \in 1..Len(results) :
         /\ results[k].v.vid = "CVE-2021-0001"
         /\ ScoredWithoutSignal(results[k])

(***************************************************************************)
(* Properties of the occurrence count in Q3                                *)
(***************************************************************************)
\* the raw record i came with 150 occurrences and the batch holds it twice:
\* there is one later record of its identity, an exact duplicate
SubmittedWithDuplicate(i) ==
    /\ vuln_list[i].nb_occurences = 150
    /\ Cardinality(LaterOccurrences(i)) = 1
    /\ \A j \in LaterOccurrences(i) : vuln_list[j] = vuln_list[i]

\* Q3 of a database finding with no criticality, no sensitive keyword and not
\* verified, under the x2.0 amplifier
Q3AtHundredTier(v) == Min(Pts(100), Mul(Mul(Pts(v.cvss), 200, 100), 140, 100))

\* C17: a database record with nb_occurences = 150 submitted together with
\* an exact duplicate of itself leaves the deduplicator as one record with
\* occurrence count 2, and the Q3 computed for that record is the one of the
\* x2.0 amplifier and the x1.4 database multiplier.
DuplicateKeepsOccurrenceTier ==
    pc \in AfterDedup =>
        \A k \in 1..Len(unique_vulns) :
            (SubmittedWithDuplicate(NthFirst(k)) /\ unique_vulns[k].domain = "database")
              => /\ unique_vulns[k].nb_occurences = 2
                 /\ calculate_q3_impact(unique_vulns[k]) = Q3AtHundredTier(unique_vulns[k])

(***************************************************************************)
(* Properties of the funnel's choice of a group                            *)
(***************************************************************************)
\* the positions of the head of a list
HeadOf(cfg, lst) == 1..Min(Len(lst), cfg.top_k_for_funnel)

\* the positions of the head whose score rounds to the same 1/100 as that of
\* position i
RoundedGroup(cfg, lst, i) ==
    {j \in HeadOf(cfg, lst) : round2(lst[j].rpi_score) = round2(lst[i].rpi_score)}

RoundedGroups(cfg, lst) == {RoundedGroup(cfg, lst, i) : i \in HeadOf(cfg, lst)}

LargeEnough(cfg, G) == Cardinality(G) >= cfg.funnel_threshold

\* max - min <= epsilon
CloseEnough(cfg, lst, G) ==
    \A i, j \in G : lst[i].rpi_score - lst[j].rpi_score <= cfg.funnel_equal_epsilon

Candidates(cfg, lst) ==
    {G \in RoundedGroups(cfg, lst) : LargeEnough(cfg, G) /\ CloseEnough(cfg, lst, G)}

\* after is before with the records at the positions G re-ranked among these
\* positions and every other record in its place
ReorderedIn(before, after, G) ==
    /\ Len(after) = Len(before)
    /\ Moved(before, after) \subseteq G
    /\ \A i \in G : Cardinality({j \in G : after[j] = before[i]})
                      = Cardinality({j \in G : before[j] = before[i]})
    /\ \A i, j \in G : i < j => ~TupleLess(funnel_key(after[j]), funnel_key(after[i]))

\* C18: the funnel groups the first min(length, top-K) records by the score
\* rounded to 2 decimals; a group is a candidate exactly when it has at least
\* funnel_threshold records and its largest and smallest score differ by at
\* most funnel_equal_epsilon. When there is no candidate the list is returned
\* as it was; otherwise the records of one candidate that no candidate
\* exceeds in size are re-ranked among their positions and no other record
\* moves.
FunnelReordersLargestCandidate ==
    [][(pc = "sorted" /\ config.funnel_enabled) =>
         IF Candidates(config, sorted_results) = {}
           THEN sorted_results' = sorted_results
           ELSE \E G \in Candidates(config, sorted_results) :
                  /\ \A H \in Candidates(config, sorted_results) :
                       Cardinality(H) <= Cardinality(G)
                  /\ ReorderedIn(sorted_results, sorted_results', G)]_vars

\* the funnel has re-ranked a group of two that is the larger of two
\* candidates, and has left alone a group of two that is large enough and
\* whose scores differ by more than epsilon
FunnelReordersLargestCandidateWitness ==
    /\ pc = "funneled"
    /\ config.funnel_enabled
    /\ Moved(primary_sort(results), sorted_results) # {}
    /\ \E G, H \in Candidates(config, primary_sort(results)) :
         /\ Cardinality(G) > Cardinality(H)
         /\ Moved(primary_sort(results), sorted_results) \subseteq G
    /\ \E G \in RoundedGroups(config, primary_sort(results)) :
         /\ LargeEnough(config, G)
         /\ ~CloseEnough(config, primary_sort(results), G)

(***************************************************************************)
(* Properties of the order inside the re-ranked group                      *)
(***************************************************************************)
\* the cohort of a scored record by what is known of it: the bucket of the
\* first signal that applies, the CVE id looked up as the fetcher stores it
CohortOf(x, f) ==
    IF _safe_bool(x.v.violates_sla) THEN 0
    ELSE IF extract_cve_id(x.v.vid) \in DOMAIN f.kev_data THEN 1
    ELSE IF check_poc_availability(f, x.v.vid).has_poc THEN 2
    ELSE IF /\ extract_cve_id(x.v.vid) \in DOMAIN f.epss_data
            /\ f.epss_data[extract_cve_id(x.v.vid)].percentile >= 9000 THEN 3
    ELSE IF x.rpi_metrics.q2_exposure >= Pts(80) /\ x.rpi_metrics.q3_impact >= Pts(80) THEN 4
    ELSE 5

\* (bucket ascending, closeness descending, tie-break key ascending)
CohortKey(x, f) == <<CohortOf(x, f), -_local_topsis_score(x)>> \o x.tie_breaker_key

\* C19: after the funnel has re-ranked a group, its members stand in the
\* order of ascending cohort bucket, then descending closeness, then
\* ascending tie-break key, the bucket of a member being that of the first
\* of these that applies to it: SLA violated, in KEV, PoC, EPSS percentile
\* >= 90, Q2 >= 80 and Q3 >= 80, none. So a member that is in KEV never
\* stands behind one that has a PoC only.
FunnelOrderByCohort ==
    (pc = "funneled" /\ config.funnel_enabled
       /\ Candidates(config, primary_sort(results)) # {}) =>
        \E G \in Candidates(config, primary_sort(results)) :
            /\ \A H \in Candidates(config, primary_sort(results)) :
                 Cardinality(H) <= Cardinality(G)
            /\ \A i, j \in G :
                 i < j => ~TupleLess(CohortKey(sorted_results[j], fetcher),
                                     CohortKey(sorted_results[i], fetcher))

(***************************************************************************)
(* Properties of the tie-break order                                       *)
(***************************************************************************)
\* the KEV flag and the EPSS percentile of a scored record, the CVE id
\* looked up as the fetcher stores it
SignalsOf(x, f) ==
    [x.rpi_metrics EXCEPT
       !.has_kev = extract_cve_id(x.v.vid) \in DOMAIN f.kev_data,
       !.epss_percentile = IF extract_cve_id(x.v.vid) \in DOMAIN f.epss_data
                             THEN f.epss_data[extract_cve_id(x.v.vid)].percentile
                             ELSE 0]

\* the 19 tie-break fields of a scored record, each encoded so that the
\* preferred value is the smaller one
TieFieldsOf(x, f) == get_tie_breaker_key(x.v, SignalsOf(x, f))

\* C20: of two records of equal RPI, Primary Sort puts first the one that is
\* preferred on the first tie-break field on which the two differ, the
\* fields taken in the order SLA violated, SLA days remaining, SLA deadline,
\* verified, dynamic, not false positive, not mitigated, not risk accepted,
\* scanner confidence, KEV, EPSS percentile, occurrence count, endpoint
\* count, has URL, CVSS, runtime, fix effort, has ticket, unique identifier.
TieBreakByFirstDifferingField ==
    pc = "sorted" =>
        \A i, j \in 1..Len(sorted_results) :
            (i < j /\ sorted_results[i].rpi_score = sorted_results[j].rpi_score)
              => ~TupleLess(TieFieldsOf(sorted_results[j], fetcher),
                            TieFieldsOf(sorted_results[i], fetcher))

(***************************************************************************)
(* Properties of the defaults of the tie-break key                         *)
(***************************************************************************)
\* the tie-break key of a scored record had its record carried the values c
\* and n as scanner confidence and occurrence count
KeyCarrying(r, c, n) ==
    get_tie_breaker_key([r.v EXCEPT !.scanner_confidence = c, !.nb_occurences = n],
                        r.rpi_metrics)

\* C21: in the tie-break key a missing or unparseable number is ordered as
\* the record that carries the field's default: with no scanner confidence
\* the confidence field is that of a record of confidence 0.5 (50 in 1/100),
\* and with no occurrence count the occurrence field is that of a record of
\* 1 occurrence.
MissingNumberRanksAsDefault ==
    (pc = "rpi_returned" /\ results # <<>>) =>
        /\ results[1].v.scanner_confidence < 0 =>
             results[1].tie_breaker_key[9]
               = KeyCarrying(results[1], 50, results[1].v.nb_occurences)[9]
        /\ results[1].v.nb_occurences = 0 =>
             results[1].tie_breaker_key[12]
               = KeyCarrying(results[1], results[1].v.scanner_confidence, 1)[12]

(***************************************************************************)
(* Properties of the exploit gate                                          *)
(***************************************************************************)
\* the EPSS score the fetcher holds for the record's CVE id, 0 when none
EpssScoreOf(v, f) ==
    IF extract_cve_id(v.vid) \in DOMAIN f.epss_data
      THEN f.epss_data[extract_cve_id(v.vid)].epss ELSE 0

\* the gate by the strongest signal present, in 1/100
GateBySignals(v, f) ==
    IF extract_cve_id(v.vid) \in DOMAIN f.kev_data THEN 120
    ELSE IF check_poc_availability(f, v.vid).has_poc THEN 115
    ELSE IF EpssScoreOf(v, f) >= 5000 THEN 110
    ELSE IF EpssScoreOf(v, f) >= 2000 THEN 105
    ELSE 100

\* C22: the exploit gate a record is scored with is 1.20 if it is in KEV,
\* otherwise 1.15 if it has a PoC, otherwise 1.10 if its EPSS score is
\* >= 0.50, otherwise 1.05 if it is >= 0.20, otherwise 1.00: the coupled Q3
\* of every scored record is its Q3 times that gate (cut at 100, then the
\* occurrence boost).
GateByStrongestSignal ==
    \A i \in 1..Len(results) :
        results[i].rpi_metrics.q3_impact
          = occurrence_boost(results[i].v,
                q3_coupled(calculate_q3_impact(results[i].v),
                           GateBySignals(results[i].v, fetcher)))

(***************************************************************************)
(* Properties of the funnel as a function of the list                      *)
(***************************************************************************)
\* how many times the record x stands in the list
Times(lst, x) == Cardinality({k \in 1..Len(lst) : lst[k] = x})

\* C23: the list the funnel returns is a permutation of the list it
\* received: it has the same length and holds every record as many times as
\* the list received (once), each with all its fields as they were.
FunnelPermutes ==
    [][pc = "sorted" =>
         /\ Len(sorted_results') = Len(sorted_results)
         /\ \A i \in 1..Len(sorted_results) :
              /\ Times(sorted_results', sorted_results[i]) = 1
              /\ Times(sorted_results, sorted_results[i]) = 1]_vars

\* the funnel has returned a list of four or more records in another order,
\* with records left in the tail beyond the top-K head
FunnelPermutesWitness ==
    /\ pc = "funneled"
    /\ Len(sorted_results) >= 4
    /\ Len(sorted_results) > config.top_k_for_funnel
    /\ sorted_results # primary_sort(results)

\* C24: the funnel is idempotent: applied to the list it has returned, with
\* the same configuration, it returns that list.
FunnelIdempotent ==
    pc = "funneled" => _apply_funneling_if_needed(config, sorted_results) = sorted_results

\* the funnel has moved records, so that the list it is applied to again is
\* not the list Primary Sort produced, and that list has a candidate group
FunnelIdempotentWitness ==
    /\ pc = "funneled"
    /\ config.funnel_enabled
    /\ Moved(primary_sort(results), sorted_results) # {}
    /\ Candidates(config, sorted_results) # {}
    /\ \E i, j \in 1..Len(sorted_results) :
         /\ i < j
         /\ sorted_results[i].rpi_score = sorted_results[j].rpi_score
         /\ TupleLess(funnel_key(sorted_results[i]), funnel_key(sorted_results[j]))

(***************************************************************************)
(* Properties of the final order                                           *)
(***************************************************************************)
\* C25: in the list process_vulnerabilities returns, the RPI rounded to 2
\* decimals does not increase from a record to the next one: a record can
\* stand before one of higher RPI only when both round to the same value.
RoundedRpiNonIncreasing ==
    pc \in {"funneled", "done"} =>
        \A k \in 1..(Len(sorted_results) - 1) :
            round2(sorted_results[k].rpi_score) >= round2(sorted_results[k + 1].rpi_score)

\* the returned list holds a record before one of higher RPI, both behind a
\* record of a higher rounded RPI
RoundedRpiNonIncreasingWitness ==
    /\ pc = "done"
    /\ \E k, i, j \in 1..Len(sorted_results) :
         /\ k < i /\ i < j
         /\ sorted_results[i].rpi_score < sorted_results[j].rpi_score
         /\ round2(sorted_results[k].rpi_score) > round2(sorted_results[i].rpi_score)

(***************************************************************************)
(* Properties that relate the stages to each other                         *)
(***************************************************************************)
\* C26: the funnel and the calculator agree on which records violate SLA:
\* every record of the ranked list that the funnel counts to cohort bucket 0
\* has a final RPI of at least 85, whatever violates_sla holds.
SlaBucketHasSlaFloor ==
    pc = "funneled" =>
        \A i \in 1..Len(sorted_results) :
            _cohort_bucket(sorted_results[i]) = 0
              => sorted_results[i].rpi_score >= Pts(SlaFloor)

\* the record's CVE id, as the normaliser returns it, is in the KEV catalog
InKev(v, f) == extract_cve_id(v.vid) \in DOMAIN f.kev_data

\* C27: every stage looks up the signals of a record under the normalized
\* id: for each scored record the coupling stage has has_kev and the EPSS
\* score and percentile of the normalized id, and Q5 counts the record to
\* KEV exactly when the normalized id is in the catalog, as Q1 does with the
\* EPSS and PoC signals.
SignalsUnderNormalizedId ==
    \A i \in 1..Len(results) :
        /\ results[i].rpi_metrics.has_kev = InKev(results[i].v, fetcher)
        /\ results[i].rpi_metrics.epss_score = EpssScoreOf(results[i].v, fetcher)
        /\ results[i].rpi_metrics.epss_percentile
             = SignalsOf(results[i], fetcher).epss_percentile
        /\ _threat_block(results[i].v, fetcher).has_kev = InKev(results[i].v, fetcher)

(***************************************************************************)
(* Properties of the comparison of keys                                    *)
(***************************************************************************)
\* C28: Primary Sort and the funnel's sort never fail on a comparison: of
\* any two successfully scored records of a batch the tie-break keys hold
\* values of the same kind at every position (never a text in one and a
\* number or null in the other), so neither sort raises.
SortKeysComparable ==
    /\ \A i, j \in 1..Len(results) : key_kinds(results[i].v) = key_kinds(results[j].v)
    /\ (pc = "scoring" /\ pending = {}) => ~primary_sort_raises(results)
    /\ pc = "sorted" => ~funnel_raises(config, sorted_results)

(***************************************************************************)
(* Properties of the management flags                                      *)
(***************************************************************************)
ManagementFlags == {"risk_accepted", "is_mitigated", "false_p"}

\* the score of the record of the call with one flag not set
RpiWithout(flag) ==
    calculate_rpi([vuln_list[1] EXCEPT ![flag] = "False"], fetcher, config.weights).rpi_score

\* C29: a record on which risk_accepted, is_mitigated or false_p is set never
\* scores more than the same record, with the same signals, on which that
\* flag is not set; and it scores strictly less when it does not violate SLA
\* and the record without the flag has a positive RPI.
FlagNeverRaisesRpi ==
    (pc = "rpi_returned" /\ results # <<>>) =>
        \A flag \in ManagementFlags :
            is_true(vuln_list[1][flag]) =>
                /\ results[1].rpi_score <= RpiWithout(flag)
                /\ (~is_true(vuln_list[1].violates_sla) /\ RpiWithout(flag) > 0) =>
                       results[1].rpi_score < RpiWithout(flag)

\* a record that does not violate SLA, with exactly one flag set, is scored
\* above 0 and below the score it has without the flag
FlagNeverRaisesRpiWitness ==
    /\ pc = "rpi_returned"
    /\ results # <<>>
    /\ \E flag \in ManagementFlags :
          /\ is_true(vuln_list[1][flag])
          /\ \A other \in ManagementFlags \ {flag} : ~is_true(vuln_list[1][other])
          /\ ~is_true(vuln_list[1].violates_sla)
          /\ 0 < results[1].rpi_score
          /\ results[1].rpi_score < RpiWithout(flag)

(***************************************************************************)
(* Properties of the empty batch                                           *)
(***************************************************************************)
\* C30: process_vulnerabilities called with an empty list of records does
\* not raise and returns an empty ranked list, as it does for a batch that
\* is not empty and of which every record is dropped.
EmptyListReturnsEmpty ==
    /\ (vuln_list = <<>> /\ pc \in AfterDedup) => pc # "raised"
    /\ (pc = "done" /\ results = <<>>) => sorted_results = <<>>

====
